---- MODULE Spec2Model ----
(***************************************************************************)
(* The ExchangeRate service of react-currency-converter                    *)
(* (utils/exchangeRate): an in-memory currency list, a rate-table cache    *)
(* keyed by base currency, and the asynchronous operations convert,        *)
(* fetchRates, getCurrencies, getCurrenciesWithNames and getCurrencyName.  *)
(*                                                                         *)
(* Every call of an operation is a process.  A step of the model is what   *)
(* JavaScript runs without interruption: the synchronous part of a call up *)
(* to its first await, or the continuation that runs when the awaited      *)
(* network response has arrived.  Calls interleave at their awaits.        *)
(***************************************************************************)
EXTENDS Integers, Sequences, FiniteSets, TLC

VARIABLES
    currencies,   \* this.currencies: the cached list of {code, name}
    rates,        \* this.rates: base code -> rate table (keys = bases stored)
    updatedAt,    \* this.updatedAt: Date | null
    now,          \* the wall clock, in ms (new Date().getTime())
    calls,        \* per call: position, operation and arguments
    out,          \* per call: how its promise settled
    obs,          \* per call: what was observed of it (history)
    fetchedAt,    \* base -> time its table was last stored (history)
    lastCodes,    \* payload of the latest successful /codes response (history)
    listSettled,  \* a list call that fetched /codes has settled (history)
    instance,     \* new ExchangeRate(apiKey): not yet run, live, or thrown
    exchangeRateApiKey,  \* this.exchangeRateApiKey: string | null
    lang,         \* CurrencyFormat.lang
    formatted,    \* the latest CurrencyFormat.format call and its outcome
    appState,     \* App: {loading, error}
    conversorData, \* App: {from, to, rawAmount, amount, result}
    appCurrencies, \* App: the currencies state filling the two selects
    effectRan     \* App: the mount effect has run

\* what the methods of ExchangeRate never touch
appSide == <<instance, exchangeRateApiKey, lang, formatted, appState, conversorData,
             appCurrencies, effectRan>>

vars == <<currencies, rates, updatedAt, now, calls, out, obs,
          fetchedAt, lastCodes, listSettled, instance, exchangeRateApiKey, lang,
          formatted, appState, conversorData, appCurrencies, effectRan>>

----------------------------------------------------------------------------
(* Bounds of the model *)

MaxInFlight == 2
MaxTicks == 3
TickMs == 1800000
MaxFormatValue == 7
MaxInvert == 10

(* Program constants *)

FreshnessWindow == 3600000

NullDate == -1

Calls == 1..MaxInFlight

Codes == {"USD", "BRL", "XXX"}

\* the bases fetchRates is called with directly
Bases == {"USD", "BRL"}

Amounts == {0, 10}

EmptyTable == [x \in {} |-> 0]

\* supported_codes payloads the provider answers with: [code, name] pairs
ProviderLists ==
    { << <<"USD", "US Dollar">> >>,
      << <<"USD", "US Dollar">>, <<"BRL", "Brazilian Real">> >> }

\* conversion_rates payloads the provider answers with
ProviderTables ==
    { ("BRL" :> 5), ("USD" :> 1 @@ "BRL" :> 6) }

----------------------------------------------------------------------------
(* HTTP responses and fetchApiData *)

NoResponse == [kind |-> "none", result |-> "-", codes |-> <<>>, table |-> EmptyTable]

FailedResponses ==
    { [kind |-> k, result |-> "-", codes |-> <<>>, table |-> EmptyTable] :
        k \in {"neterr", "non2xx", "badjson"} }
    \cup { [kind |-> "json", result |-> "error", codes |-> <<>>, table |-> EmptyTable] }

CodesResponses ==
    FailedResponses
    \cup { [kind |-> "json", result |-> "success", codes |-> l, table |-> EmptyTable] :
             l \in ProviderLists }

RatesResponses ==
    FailedResponses
    \cup { [kind |-> "json", result |-> "success", codes |-> <<>>, table |-> t] :
             t \in ProviderTables }

fetchApiDataNoCatch(resp) ==
    CASE resp.kind \in {"neterr", "non2xx", "badjson"} -> [st |-> "reject", body |-> NoResponse]
      [] OTHER -> [st |-> "data", body |-> resp]

\* fetchApiData: a rejected fetch and a non-2xx status are caught and give
\* null; with a 2xx status the promise of response.json() is returned from
\* inside the try block without await, so its rejection is not caught.
fetchApiData(resp) ==
    CASE resp.kind = "neterr"  -> [st |-> "null", body |-> NoResponse]
      [] resp.kind = "non2xx"  -> [st |-> "null", body |-> NoResponse]
      [] resp.kind = "badjson" -> [st |-> "reject", body |-> NoResponse]
      [] OTHER                 -> [st |-> "data", body |-> resp]

\* data && data.result === "success"
IsSuccess(d) == d.st = "data" /\ d.body.result = "success"

----------------------------------------------------------------------------
(* Pure parts of the service *)

\* supported_codes.map(([code, name]) => ({code, name}))
ToCurrencies(sc) == [i \in 1..Len(sc) |-> [code |-> sc[i][1], name |-> sc[i][2]]]

\* this.currencies.some((currency) => currency.code === code)
HasCode(list, code) == \E i \in 1..Len(list) : list[i].code = code

ListIsEmptyAlways(list) == TRUE

\* this.currencies.length === 0, the lazy-load test of the three list getters
ListIsEmpty(list) == Len(list) = 0

fetchCurrenciesOrClear(list, d) ==
    IF IsSuccess(d) THEN ToCurrencies(d.body.codes) ELSE <<>>

\* fetchCurrencies after its await: the list is replaced on success only
fetchCurrencies(list, d) ==
    IF IsSuccess(d) THEN ToCurrencies(d.body.codes) ELSE list

NeedsFetchInverted(u, t) == u # NullDate /\ t - u > FreshnessWindow

\* the refetch test of fetchRates
NeedsFetch(u, t) == u = NullDate \/ t - u > FreshnessWindow

StoreRatesOnly(r, code, d) ==
    IF IsSuccess(d) THEN [b \in {code} |-> d.body.table] ELSE r

\* this.rates[code] = data.conversion_rates, on success only
StoreRates(r, code, d) ==
    IF IsSuccess(d)
    THEN [b \in DOMAIN r \cup {code} |-> IF b = code THEN d.body.table ELSE r[b]]
    ELSE r

\* this.rates[code] || null
RatesOrNull(r, code) ==
    IF code \in DOMAIN r
    THEN [null |-> FALSE, table |-> r[code]]
    ELSE [null |-> TRUE, table |-> EmptyTable]

\* How a promise settles
Pending == [kind |-> "pending", num |-> 0, table |-> EmptyTable, list |-> <<>>,
            str |-> "", code |-> "-"]
Number(n) == [Pending EXCEPT !.kind = "number", !.num = n]
Null == [Pending EXCEPT !.kind = "null"]
Table(t) == [Pending EXCEPT !.kind = "table", !.table = t]
List(l) == [Pending EXCEPT !.kind = "list", !.list = l]
Name(s) == [Pending EXCEPT !.kind = "name", !.str = s]
Throw(msg, code) == [Pending EXCEPT !.kind = "throw", !.str = msg, !.code = code]

ValidateFromOnly(list, from, to) ==
    IF ~HasCode(list, from) THEN Throw("Invalid currency", from) ELSE Pending

\* the two membership tests at the head of convert
Validate(list, from, to) ==
    IF ~HasCode(list, from) THEN Throw("Invalid currency", from)
    ELSE IF ~HasCode(list, to) THEN Throw("Invalid currency", to)
    ELSE Pending

MultiplyAdd(amount, rate) == amount + rate

\* amount * rate
Multiply(amount, rate) == amount * rate

\* !rate, for rate = data[to]: a missing key and a rate of 0 are both falsy
NoRate(table, to) == to \notin DOMAIN table \/ table[to] = 0

convertResultNullOnMiss(data, from, to, amount) ==
    IF data.null \/ NoRate(data.table, to) THEN Null
    ELSE Number(Multiply(amount, data.table[to]))

\* convert after fetchRates has returned data
convertResult(data, from, to, amount) ==
    IF data.null THEN Null
    ELSE IF NoRate(data.table, to) THEN Throw("Exchange rate not found", from)
    ELSE Number(Multiply(amount, data.table[to]))

\* what fetchRates returns to a direct caller
fetchRatesResult(data) == IF data.null THEN Null ELSE Table(data.table)

\* the return statements of the three list getters
Codes_(list) == [i \in 1..Len(list) |-> list[i].code]
NameOf(list, code) ==
    IF HasCode(list, code)
    THEN Name((list[CHOOSE i \in 1..Len(list) :
                     list[i].code = code /\ \A j \in 1..(i-1) : list[j].code # code]).name)
    ELSE Null
listResult(op, list, code) ==
    CASE op = "getCurrencies"          -> List(Codes_(list))
      [] op = "getCurrenciesWithNames" -> List(list)
      [] OTHER                         -> NameOf(list, code)

----------------------------------------------------------------------------
(* The constructor of ExchangeRate *)

\* process.env.REACT_APP_EXCHANGE_RATE_API_KEY as string: a string or undefined
UndefinedKey == [kind |-> "undefined", str |-> ""]
StringKey(str) == [kind |-> "string", str |-> str]
NullKey == [kind |-> "null", str |-> ""]
ApiKeys == {UndefinedKey, StringKey(""), StringKey("k3y")}

KeyMissingUndefinedOnly(apiKey) == apiKey.kind = "undefined"

\* !apiKey
KeyMissing(apiKey) == apiKey.kind # "string" \/ apiKey.str = ""

----------------------------------------------------------------------------
(* CurrencyFormat *)

\* the characters of the strings the model passes as currency codes
Chars(str) ==
    CASE str = ""     -> <<>>
      [] str = "US"   -> <<"U", "S">>
      [] str = "USD"  -> <<"U", "S", "D">>
      [] str = "usd"  -> <<"u", "s", "d">>
      [] str = "BRL"  -> <<"B", "R", "L">>
      [] str = "XXX"  -> <<"X", "X", "X">>
      [] str = "U$D"  -> <<"U", "$", "D">>
      [] str = "EURO" -> <<"E", "U", "R", "O">>

FormatCodes == {"", "US", "USD", "usd", "BRL", "XXX", "U$D", "EURO"}
FormatValues == 0..MaxFormatValue

\* the locales a CurrencyFormat is constructed with (never empty)
Langs == {"pt-BR", "en-US", "pt_BR"}

Letters ==
    {"A", "B", "C", "D", "E", "F", "G", "H", "I", "J", "K", "L", "M", "N", "O", "P",
     "Q", "R", "S", "T", "U", "V", "W", "X", "Y", "Z",
     "a", "b", "c", "d", "e", "f", "g", "h", "i", "j", "k", "l", "m", "n", "o", "p",
     "q", "r", "s", "t", "u", "v", "w", "x", "y", "z"}

\* new Intl.NumberFormat(lang, {style: "currency", currency}) throws a
\* RangeError unless the code is three letters and the locale tag is well formed
IsWellFormedCurrencyCode(code) ==
    Len(Chars(code)) = 3 /\ \A i \in 1..3 : Chars(code)[i] \in Letters
IsWellFormedLocale(l) == l \in {"pt-BR", "en-US"}

NoFormat == [value |-> 0, currency |-> "-", kind |-> "none", text |-> <<>>]

formatNoEmptyCheck(l, value, currency) ==
    IF ~IsWellFormedCurrencyCode(currency) \/ ~IsWellFormedLocale(l)
    THEN [value |-> value, currency |-> currency, kind |-> "throw",
          text |-> <<"RangeError">>]
    ELSE [value |-> value, currency |-> currency, kind |-> "string",
          text |-> <<l, currency, value>>]

\* CurrencyFormat.format; the text stands for the locale's rendering of the
\* value in the currency
format(l, value, currency) ==
    IF Len(Chars(currency)) = 0
    THEN [value |-> value, currency |-> currency, kind |-> "throw",
          text |-> <<"Currency code is required.">>]
    ELSE IF ~IsWellFormedCurrencyCode(currency) \/ ~IsWellFormedLocale(l)
    THEN [value |-> value, currency |-> currency, kind |-> "throw",
          text |-> <<"RangeError">>]
    ELSE [value |-> value, currency |-> currency, kind |-> "string",
          text |-> <<l, currency, value>>]

----------------------------------------------------------------------------
(* App state *)

NoError == <<>>
Typed(text) == [kind |-> "typed", text |-> <<text>>]
Formatted(text) == [kind |-> "formatted", text |-> text]

\* what the amount input can hold after /[^\d,.]/g is stripped
Inputs == {"", "10", "10,"}

\* value.replace(",", ".")
Sanitize(text) == IF text = "10," THEN "10." ELSE text

\* isNaN(parseFloat(s)) ? 0 : parseFloat(s)
ParseAmount(text) == IF text \in {"10", "10."} THEN 10 ELSE 0

\* parseFloat(result.toFixed(2)): the numbers of the model are integers, which
\* rounding to two decimals leaves as they are
ToFixed2(n) == n

\* what the catch block of App.fetchRates receives: the error convert threw,
\* the TypeError of null.toFixed, or the error format threw; <<>> for none
CaughtError(o, fmt) ==
    CASE o.kind = "throw"  -> <<o.str, o.code>>
      [] o.kind = "null"   -> <<"TypeError">>
      [] fmt.kind = "throw" -> fmt.text
      [] OTHER -> <<>>

appStateAfterConvertNoFinally(st, o, fmt) ==
    IF CaughtError(o, fmt) # <<>>
    THEN [st EXCEPT !.error = CaughtError(o, fmt)]
    ELSE [st EXCEPT !.loading = FALSE]

\* appState after the try / catch / finally of App.fetchRates
appStateAfterConvert(st, o, fmt) ==
    IF CaughtError(o, fmt) # <<>>
    THEN [loading |-> FALSE, error |-> CaughtError(o, fmt)]
    ELSE [st EXCEPT !.loading = FALSE]

\* conversorData after the try block of App.fetchRates
conversorDataAfterConvert(cd, o, fmt) ==
    IF CaughtError(o, fmt) # <<>> THEN cd
    ELSE [cd EXCEPT !.result = ToFixed2(o.num), !.rawAmount = Formatted(fmt.text)]

----------------------------------------------------------------------------
(* Calls *)

ListOps == {"getCurrencies", "getCurrenciesWithNames", "getCurrencyName"}
RateOps == {"convert", "fetchRates"}

NoCall == [pc |-> "idle", op |-> "-", from |-> "-", to |-> "-", amount |-> 0]

\* net: the requests the call has issued, in order; fromKnown, toKnown,
\* emptyAtCall: the currency list as the call found it; cached, age: the
\* cached entry of the base as the call found it and the time since it was
\* stored; resp: the response the call received; got, table: what fetchRates
\* handed back
NoObs == [net |-> <<>>, fromKnown |-> FALSE, toKnown |-> FALSE,
          emptyAtCall |-> FALSE, cached |-> FALSE, age |-> 0,
          resp |-> NoResponse, got |-> "-", table |-> EmptyTable]

CodeSet(list) == {list[i].code : i \in 1..Len(list)}

Init ==
    /\ currencies = <<>>
    /\ rates = EmptyTable
    /\ updatedAt = NullDate
    /\ now = 0
    /\ calls = [c \in Calls |-> NoCall]
    /\ out = [c \in Calls |-> Pending]
    /\ obs = [c \in Calls |-> NoObs]
    /\ fetchedAt = EmptyTable
    /\ lastCodes = <<>>
    /\ listSettled = FALSE
    /\ instance = [st |-> "live", error |-> "", given |-> StringKey("k3y")]
    /\ exchangeRateApiKey = StringKey("k3y")
    /\ lang = "pt-BR"
    /\ formatted = NoFormat
    /\ appState = [loading |-> FALSE, error |-> NoError]
    /\ conversorData = [from |-> "USD", to |-> "BRL", rawAmount |-> Typed(""),
                        amount |-> 0, result |-> 0]
    /\ appCurrencies = <<>>
    /\ effectRan = FALSE

\* a settled promise is taken by its caller before anything else happens
NoneDone == \A c \in Calls : calls[c].pc # "done"

\* continuations run to their end before a new task (a call, a clock tick)
Quiet == \A c \in Calls : calls[c].pc \notin {"done", "afterCodes"}

\* a new call takes the first free slot
Startable(c) ==
    /\ Quiet
    /\ calls[c].pc = "idle"
    /\ \A d \in Calls : d < c => calls[d].pc # "idle"

\* fetchRates up to its await: the request for /latest/<code> is issued when
\* the refetch test says so, else the cached entry is returned at once
fetchRatesStart(c, rec, o) ==
    LET o1 == [o EXCEPT !.cached = rec.from \in DOMAIN rates,
                        !.age = IF rec.from \in DOMAIN rates
                                THEN now - fetchedAt[rec.from] ELSE 0] IN
    IF NeedsFetch(updatedAt, now)
    THEN /\ calls' = [calls EXCEPT ![c] = [rec EXCEPT !.pc = "awaitRates"]]
         /\ obs' = [obs EXCEPT ![c] = [o1 EXCEPT !.net = Append(@, "rates")]]
         /\ out' = out
    ELSE LET data == RatesOrNull(rates, rec.from) IN
         /\ calls' = [calls EXCEPT ![c] = [rec EXCEPT !.pc = "done"]]
         /\ obs' = [obs EXCEPT ![c] = [o1 EXCEPT !.got = IF data.null THEN "null" ELSE "table",
                                                 !.table = data.table]]
         /\ out' = [out EXCEPT ![c] = IF rec.op = "convert"
                                      THEN convertResult(data, rec.from, rec.to, rec.amount)
                                      ELSE fetchRatesResult(data)]

convertFetchFirst(c, from, to, amount) ==
    /\ Startable(c)
    /\ fetchRatesStart(c, [pc |-> "idle", op |-> "convert", from |-> from, to |-> to,
                           amount |-> amount],
                       [NoObs EXCEPT !.fromKnown = from \in CodeSet(currencies),
                                     !.toKnown = to \in CodeSet(currencies),
                                     !.emptyAtCall = (currencies = <<>>)])
    /\ UNCHANGED <<currencies, rates, updatedAt, now, fetchedAt, lastCodes, listSettled>>

convert(c, from, to, amount) ==
    /\ Startable(c)
    /\ LET rec == [pc |-> "idle", op |-> "convert", from |-> from, to |-> to,
                   amount |-> amount]
           o == [NoObs EXCEPT !.fromKnown = from \in CodeSet(currencies),
                              !.toKnown = to \in CodeSet(currencies),
                              !.emptyAtCall = (currencies = <<>>)]
           v == Validate(currencies, from, to)
       IN IF v.kind = "throw"
          THEN /\ calls' = [calls EXCEPT ![c] = [rec EXCEPT !.pc = "done"]]
               /\ out' = [out EXCEPT ![c] = v]
               /\ obs' = [obs EXCEPT ![c] = o]
          ELSE fetchRatesStart(c, rec, o)
    /\ UNCHANGED <<currencies, rates, updatedAt, now, fetchedAt, lastCodes, listSettled>>

fetchRates(c, code) ==
    /\ Startable(c)
    /\ fetchRatesStart(c, [pc |-> "idle", op |-> "fetchRates", from |-> code,
                           to |-> "-", amount |-> 0], NoObs)
    /\ UNCHANGED <<currencies, rates, updatedAt, now, fetchedAt, lastCodes, listSettled>>

\* getCurrencies, getCurrenciesWithNames, getCurrencyName up to their await
listCall(c, op, code) ==
    /\ Startable(c)
    /\ LET rec == [pc |-> "idle", op |-> op, from |-> code, to |-> "-", amount |-> 0]
           o == [NoObs EXCEPT !.emptyAtCall = (currencies = <<>>)]
       IN IF ListIsEmpty(currencies)
          THEN /\ calls' = [calls EXCEPT ![c] = [rec EXCEPT !.pc = "awaitCodes"]]
               /\ obs' = [obs EXCEPT ![c] = [o EXCEPT !.net = Append(@, "codes")]]
               /\ out' = out
          ELSE /\ calls' = [calls EXCEPT ![c] = [rec EXCEPT !.pc = "done"]]
               /\ obs' = [obs EXCEPT ![c] = o]
               /\ out' = [out EXCEPT ![c] = listResult(op, currencies, code)]
    /\ UNCHANGED <<currencies, rates, updatedAt, now, fetchedAt, lastCodes, listSettled>>

getCurrencies(c) == listCall(c, "getCurrencies", "-")
getCurrenciesWithNames(c) == listCall(c, "getCurrenciesWithNames", "-")
getCurrencyName(c, code) == listCall(c, "getCurrencyName", code)

\* the /codes response arrives: fetchApiData settles and fetchCurrencies runs on
CodesResponse(c, resp) ==
    /\ NoneDone
    /\ calls[c].pc = "awaitCodes"
    /\ LET d == fetchApiData(resp) IN
       /\ obs' = [obs EXCEPT ![c].resp = resp]
       /\ IF d.st = "reject"
          THEN /\ calls' = [calls EXCEPT ![c].pc = "done"]
               /\ out' = [out EXCEPT ![c] = Throw("SyntaxError", "-")]
               /\ listSettled' = TRUE
               /\ UNCHANGED <<currencies, lastCodes>>
          ELSE /\ calls' = [calls EXCEPT ![c].pc = "afterCodes"]
               /\ currencies' = fetchCurrencies(currencies, d)
               /\ lastCodes' = IF IsSuccess(d) THEN d.body.codes ELSE lastCodes
               /\ UNCHANGED <<out, listSettled>>
    /\ UNCHANGED <<rates, updatedAt, now, fetchedAt>>

\* the getter resumes after await this.fetchCurrencies() and reads the list
ListReturn(c) ==
    /\ NoneDone
    /\ calls[c].pc = "afterCodes"
    /\ calls' = [calls EXCEPT ![c].pc = "done"]
    /\ out' = [out EXCEPT ![c] = listResult(calls[c].op, currencies, calls[c].from)]
    /\ listSettled' = TRUE
    /\ UNCHANGED <<currencies, rates, updatedAt, now, obs, fetchedAt, lastCodes>>

RatesResponseRetry(c, resp) ==
    /\ NoneDone
    /\ calls[c].pc = "awaitRates"
    /\ ~IsSuccess(fetchApiData(resp))
    /\ obs' = [obs EXCEPT ![c].resp = resp, ![c].net = Append(@, "rates")]
    /\ UNCHANGED <<currencies, rates, updatedAt, now, calls, out, fetchedAt, lastCodes,
                   listSettled>>

\* the /latest/<code> response arrives: fetchRates and then its caller run on
RatesResponse(c, resp) ==
    /\ NoneDone
    /\ calls[c].pc = "awaitRates"
    /\ LET d == fetchApiData(resp)
           base == calls[c].from
           newRates == StoreRates(rates, base, d)
           data == RatesOrNull(newRates, base)
       IN IF d.st = "reject"
          THEN /\ out' = [out EXCEPT ![c] = Throw("SyntaxError", "-")]
               /\ obs' = [obs EXCEPT ![c].resp = resp]
               /\ UNCHANGED <<rates, fetchedAt>>
          ELSE /\ rates' = newRates
               /\ fetchedAt' = IF IsSuccess(d)
                               THEN [b \in DOMAIN newRates |->
                                       IF b = base THEN now ELSE fetchedAt[b]]
                               ELSE fetchedAt
               /\ obs' = [obs EXCEPT ![c].resp = resp,
                                     ![c].got = IF data.null THEN "null" ELSE "table",
                                     ![c].table = data.table]
               /\ out' = [out EXCEPT ![c] =
                            IF calls[c].op = "convert"
                            THEN convertResult(data, base, calls[c].to, calls[c].amount)
                            ELSE fetchRatesResult(data)]
    /\ calls' = [calls EXCEPT ![c].pc = "done"]
    /\ UNCHANGED <<currencies, updatedAt, now, lastCodes, listSettled>>

\* the caller takes the settled promise's outcome
Return(c) ==
    /\ calls[c].pc = "done"
    /\ calls' = [calls EXCEPT ![c] = NoCall]
    /\ out' = [out EXCEPT ![c] = Pending]
    /\ obs' = [obs EXCEPT ![c] = NoObs]
    /\ UNCHANGED <<currencies, rates, updatedAt, now, fetchedAt, lastCodes, listSettled>>

\* time passes
Tick ==
    /\ Quiet
    /\ now < MaxTicks * TickMs
    /\ now' = now + TickMs
    /\ UNCHANGED <<currencies, rates, updatedAt, calls, out, obs, fetchedAt,
                   lastCodes, listSettled>>

\* One caller that makes its calls one after the other, while time passes
Next ==
    \/ \E from \in Codes, to \in Codes, amount \in Amounts :
         convert(1, from, to, amount) /\ UNCHANGED appSide
    \/ \E code \in Bases : fetchRates(1, code) /\ UNCHANGED appSide
    \/ getCurrencies(1) /\ UNCHANGED appSide
    \/ getCurrenciesWithNames(1) /\ UNCHANGED appSide
    \/ \E code \in Codes : getCurrencyName(1, code) /\ UNCHANGED appSide
    \/ \E resp \in CodesResponses : CodesResponse(1, resp) /\ UNCHANGED appSide
    \/ ListReturn(1) /\ UNCHANGED appSide
    \/ \E resp \in RatesResponses : RatesResponse(1, resp) /\ UNCHANGED appSide
    \/ Return(1) /\ UNCHANGED appSide
    \/ Tick /\ UNCHANGED appSide

Spec == Init /\ [][Next]_vars

\* Callers that do not wait for one another: up to MaxInFlight calls in flight
NextConcurrent ==
    \/ \E c \in Calls, from \in Codes, to \in Codes :
         convert(c, from, to, 10) /\ UNCHANGED appSide
    \/ \E c \in Calls : getCurrencies(c) /\ UNCHANGED appSide
    \/ \E c \in Calls : getCurrenciesWithNames(c) /\ UNCHANGED appSide
    \/ \E c \in Calls, resp \in CodesResponses : CodesResponse(c, resp) /\ UNCHANGED appSide
    \/ \E c \in Calls : ListReturn(c) /\ UNCHANGED appSide
    \/ \E c \in Calls, resp \in RatesResponses : RatesResponse(c, resp) /\ UNCHANGED appSide
    \/ \E c \in Calls : Return(c) /\ UNCHANGED appSide

SpecConcurrent == Init /\ [][NextConcurrent]_vars

\* The module that holds the service: new ExchangeRate(apiKey) runs first
InitConstruct ==
    /\ currencies = <<>>
    /\ rates = EmptyTable
    /\ updatedAt = NullDate
    /\ now = 0
    /\ calls = [c \in Calls |-> NoCall]
    /\ out = [c \in Calls |-> Pending]
    /\ obs = [c \in Calls |-> NoObs]
    /\ fetchedAt = EmptyTable
    /\ lastCodes = <<>>
    /\ listSettled = FALSE
    /\ instance = [st |-> "none", error |-> "", given |-> NullKey]
    /\ exchangeRateApiKey = NullKey
    /\ lang = "pt-BR"
    /\ formatted = NoFormat
    /\ appState = [loading |-> FALSE, error |-> NoError]
    /\ conversorData = [from |-> "USD", to |-> "BRL", rawAmount |-> Typed(""),
                        amount |-> 0, result |-> 0]
    /\ appCurrencies = <<>>
    /\ effectRan = FALSE

\* the constructor
Construct(apiKey) ==
    /\ instance.st = "none"
    /\ IF KeyMissing(apiKey)
       THEN /\ instance' = [st |-> "threw", error |-> "API key is required.",
                            given |-> apiKey]
            /\ exchangeRateApiKey' = exchangeRateApiKey
       ELSE /\ instance' = [st |-> "live", error |-> "", given |-> apiKey]
            /\ exchangeRateApiKey' = apiKey
    /\ UNCHANGED <<currencies, rates, updatedAt, now, calls, out, obs, fetchedAt,
                   lastCodes, listSettled, lang, formatted, appState, conversorData,
                   appCurrencies, effectRan>>

\* methods are called on an instance the constructor has returned
Live == instance.st = "live"

NextConstruct ==
    \/ \E apiKey \in ApiKeys : Construct(apiKey)
    \/ \E from \in Codes, to \in Codes, amount \in Amounts :
         Live /\ convert(1, from, to, amount) /\ UNCHANGED appSide
    \/ \E code \in Bases : Live /\ fetchRates(1, code) /\ UNCHANGED appSide
    \/ Live /\ getCurrenciesWithNames(1) /\ UNCHANGED appSide
    \/ \E resp \in CodesResponses : CodesResponse(1, resp) /\ UNCHANGED appSide
    \/ ListReturn(1) /\ UNCHANGED appSide
    \/ \E resp \in RatesResponses : RatesResponse(1, resp) /\ UNCHANGED appSide
    \/ Return(1) /\ UNCHANGED appSide

SpecConstruct == InitConstruct /\ [][NextConstruct]_vars

\* A CurrencyFormat constructed with some locale, and format called on it
InitFormat ==
    /\ currencies = <<>>
    /\ rates = EmptyTable
    /\ updatedAt = NullDate
    /\ now = 0
    /\ calls = [c \in Calls |-> NoCall]
    /\ out = [c \in Calls |-> Pending]
    /\ obs = [c \in Calls |-> NoObs]
    /\ fetchedAt = EmptyTable
    /\ lastCodes = <<>>
    /\ listSettled = FALSE
    /\ instance = [st |-> "live", error |-> "", given |-> StringKey("k3y")]
    /\ exchangeRateApiKey = StringKey("k3y")
    /\ lang \in Langs
    /\ formatted = NoFormat
    /\ appState = [loading |-> FALSE, error |-> NoError]
    /\ conversorData = [from |-> "USD", to |-> "BRL", rawAmount |-> Typed(""),
                        amount |-> 0, result |-> 0]
    /\ appCurrencies = <<>>
    /\ effectRan = FALSE

Format(value, currency) ==
    /\ formatted' = format(lang, value, currency)
    /\ UNCHANGED <<currencies, rates, updatedAt, now, calls, out, obs, fetchedAt,
                   lastCodes, listSettled, instance, exchangeRateApiKey, lang,
                   appState, conversorData, appCurrencies, effectRan>>

NextFormat == \E value \in FormatValues, currency \in FormatCodes : Format(value, currency)

SpecFormat == InitFormat /\ [][NextFormat]_vars

----------------------------------------------------------------------------
(* App: the component and the service it holds *)

serviceSide == <<currencies, rates, updatedAt, now, fetchedAt, lastCodes, listSettled>>

\* useEffect(..., []): the mount effect calls getCurrenciesWithNames
Mount(c) ==
    /\ ~effectRan
    /\ effectRan' = TRUE
    /\ getCurrenciesWithNames(c)
    /\ UNCHANGED <<instance, exchangeRateApiKey, lang, formatted, appState,
                   conversorData, appCurrencies>>

\* the mount effect resumes: setCurrencies, or its catch block
EffectSettled(c) ==
    /\ calls[c].pc = "done"
    /\ calls[c].op = "getCurrenciesWithNames"
    /\ IF out[c].kind = "throw"
       THEN /\ appState' = [loading |-> FALSE, error |-> <<"Failed to fetch currencies">>]
            /\ appCurrencies' = appCurrencies
       ELSE /\ appCurrencies' = out[c].list
            /\ appState' = appState
    /\ calls' = [calls EXCEPT ![c] = NoCall]
    /\ out' = [out EXCEPT ![c] = Pending]
    /\ obs' = [obs EXCEPT ![c] = NoObs]
    /\ UNCHANGED serviceSide
    /\ UNCHANGED <<instance, exchangeRateApiKey, lang, formatted, conversorData, effectRan>>

\* the Converter button (disabled while loading): App.fetchRates up to its await
ClickConvert(c) ==
    /\ ~appState.loading
    /\ appState' = [loading |-> TRUE, error |-> NoError]
    /\ convert(c, conversorData.from, conversorData.to, conversorData.amount)
    /\ UNCHANGED <<instance, exchangeRateApiKey, lang, formatted, conversorData,
                   appCurrencies, effectRan>>

\* App.fetchRates resumes with the outcome of convert; from and amount are
\* the ones the handler was created with
ConvertSettled(c) ==
    /\ calls[c].pc = "done"
    /\ calls[c].op = "convert"
    /\ LET fmt == IF out[c].kind = "number"
                  THEN format(lang, calls[c].amount, calls[c].from)
                  ELSE NoFormat
       IN /\ appState' = appStateAfterConvert(appState, out[c], fmt)
          /\ conversorData' = conversorDataAfterConvert(conversorData, out[c], fmt)
          /\ formatted' = IF out[c].kind = "number" THEN fmt ELSE formatted
    /\ calls' = [calls EXCEPT ![c] = NoCall]
    /\ out' = [out EXCEPT ![c] = Pending]
    /\ obs' = [obs EXCEPT ![c] = NoObs]
    /\ UNCHANGED serviceSide
    /\ UNCHANGED <<instance, exchangeRateApiKey, lang, appCurrencies, effectRan>>

\* typing in the amount input
handleValueChange(text) ==
    /\ Quiet
    /\ conversorData' = [conversorData EXCEPT !.rawAmount = Typed(Sanitize(text)),
                                              !.amount = ParseAmount(Sanitize(text))]
    /\ UNCHANGED serviceSide
    /\ UNCHANGED <<calls, out, obs, instance, exchangeRateApiKey, lang, formatted,
                   appState, appCurrencies, effectRan>>

\* choosing an option of the `from` or of the `to` select
handleCurrencyChange(key, value) ==
    /\ Quiet
    /\ value \in CodeSet(appCurrencies)
    /\ conversorData' = IF key = "from"
                        THEN [conversorData EXCEPT !.from = value, !.result = 0]
                        ELSE [conversorData EXCEPT !.to = value, !.result = 0]
    /\ UNCHANGED serviceSide
    /\ UNCHANGED <<calls, out, obs, instance, exchangeRateApiKey, lang, formatted,
                   appState, appCurrencies, effectRan>>

\* the Limpar button (disabled while loading)
resetConverter ==
    /\ Quiet
    /\ ~appState.loading
    /\ conversorData' = [conversorData EXCEPT !.result = 0, !.amount = 0,
                                              !.rawAmount = Typed("")]
    /\ UNCHANGED serviceSide
    /\ UNCHANGED <<calls, out, obs, instance, exchangeRateApiKey, lang, formatted,
                   appState, appCurrencies, effectRan>>

\* the Inverter button (disabled while loading)
invertCurrencies ==
    /\ Quiet
    /\ ~appState.loading
    /\ conversorData.result <= MaxInvert
    /\ LET fmt == format(lang, conversorData.result, conversorData.to) IN
       /\ formatted' = fmt
       /\ conversorData' =
            IF fmt.kind = "throw" THEN conversorData
            ELSE [from |-> conversorData.to, to |-> conversorData.from,
                  result |-> conversorData.amount, amount |-> conversorData.result,
                  rawAmount |-> Formatted(fmt.text)]
    /\ UNCHANGED serviceSide
    /\ UNCHANGED <<calls, out, obs, instance, exchangeRateApiKey, lang,
                   appState, appCurrencies, effectRan>>

NextApp ==
    \/ \E c \in Calls : Mount(c)
    \/ \E c \in Calls : EffectSettled(c)
    \/ \E c \in Calls : ClickConvert(c)
    \/ \E c \in Calls : ConvertSettled(c)
    \/ \E text \in Inputs : handleValueChange(text)
    \/ \E key \in {"from", "to"}, value \in Codes : handleCurrencyChange(key, value)
    \/ resetConverter
    \/ invertCurrencies
    \/ \E c \in Calls, resp \in CodesResponses : CodesResponse(c, resp) /\ UNCHANGED appSide
    \/ \E c \in Calls : ListReturn(c) /\ UNCHANGED appSide
    \/ \E c \in Calls, resp \in RatesResponses : RatesResponse(c, resp) /\ UNCHANGED appSide

SpecApp == Init /\ [][NextApp]_vars

----------------------------------------------------------------------------
(* Properties *)

Failed(resp) == resp.kind # "none" /\ ~(resp.kind = "json" /\ resp.result = "success")
Succeeded(resp) == resp.kind = "json" /\ resp.result = "success"

\* the call went past the validation of convert into fetchRates
InFetchRates(c) ==
    \/ calls[c].op = "fetchRates"
    \/ calls[c].op = "convert" /\ obs[c].fromKnown /\ obs[c].toKnown

\* C1: a convert between two listed codes whose rate request is answered with
\* a successful table holding a rate for `to` returns amount * rate[to].
C1_ConvertMultiplies ==
    \A c \in Calls :
        ( /\ calls[c].pc = "done"
          /\ calls[c].op = "convert"
          /\ obs[c].fromKnown /\ obs[c].toKnown
          /\ calls[c].amount >= 0
          /\ Succeeded(obs[c].resp)
          /\ calls[c].to \in DOMAIN obs[c].resp.table )
        => /\ out[c].kind = "number"
           /\ out[c].num = calls[c].amount * obs[c].resp.table[calls[c].to]

\* table {BRL: 5} for base USD: convert(USD, BRL, 10) has returned 50
C1_Witness ==
    \E c \in Calls :
        /\ calls[c] = [pc |-> "done", op |-> "convert", from |-> "USD", to |-> "BRL",
                       amount |-> 10]
        /\ obs[c].resp.table = ("BRL" :> 5)
        /\ out[c] = Number(50)

\* C2: a rate call made less than 3,600,000 ms after the table of its base was
\* stored issues no network request.
C2_NoRequestInsideWindow ==
    \A c \in Calls :
        ( /\ calls[c].pc # "idle"
          /\ InFetchRates(c)
          /\ obs[c].cached
          /\ obs[c].age < FreshnessWindow )
        => obs[c].net = <<>>

\* C3: a convert called while the currency list has never been loaded, with
\* codes every provider list holds, does not fail with 'Invalid currency'.
C3_ConvertLoadsListFirst ==
    \A c \in Calls :
        ( /\ calls[c].pc = "done"
          /\ calls[c].op = "convert"
          /\ obs[c].emptyAtCall
          /\ \A l \in ProviderLists :
               {calls[c].from, calls[c].to} \subseteq {l[i][1] : i \in 1..Len(l)} )
        => ~(out[c].kind = "throw" /\ out[c].str = "Invalid currency")

\* C4: a rate call whose request is answered with a failure settles with null.
C4_FailureGivesNull ==
    \A c \in Calls :
        ( /\ calls[c].pc = "done"
          /\ InFetchRates(c)
          /\ Failed(obs[c].resp) )
        => out[c].kind = "null"

\* C5: a convert with `from` or `to` outside the cached list throws 'Invalid
\* currency' for the first such code, and no number is ever returned for a
\* code outside the list.
C5_InvalidCurrencyThrows ==
    \A c \in Calls :
        calls[c].op = "convert" =>
            /\ ~obs[c].fromKnown =>
                 /\ calls[c].pc = "done"
                 /\ out[c] = Throw("Invalid currency", calls[c].from)
            /\ (obs[c].fromKnown /\ ~obs[c].toKnown) =>
                 /\ calls[c].pc = "done"
                 /\ out[c] = Throw("Invalid currency", calls[c].to)
            /\ out[c].kind \in {"number", "null"} => (obs[c].fromKnown /\ obs[c].toKnown)

\* the list is loaded, `from` is in it, `to` is not: convert has thrown
C5_Witness ==
    \E c \in Calls :
        /\ calls[c].pc = "done"
        /\ calls[c].op = "convert"
        /\ calls[c].from = "USD" /\ calls[c].to = "XXX"
        /\ currencies # <<>>
        /\ out[c] = Throw("Invalid currency", "XXX")

\* C6 as stated: once a list call that fetched /codes has settled, no later
\* list call issues a /codes request.
C6_OneFetchForTwoCalls ==
    [][listSettled =>
         \A c \in Calls : calls'[c].pc = "awaitCodes" => calls[c].pc = "awaitCodes"]_vars

\* C6 amended: a list call that finds the list non-empty issues no request
\* and returns from the cached list; a list call issues at most one request.
C6_NoFetchOnceLoaded ==
    \A c \in Calls :
        calls[c].op \in ListOps =>
            /\ Len(obs[c].net) <= 1
            /\ ~obs[c].emptyAtCall =>
                 /\ obs[c].net = <<>>
                 /\ calls[c].pc = "done"
                 /\ out[c] = listResult(calls[c].op, currencies, calls[c].from)

\* a second list call, made after one that fetched has settled, returned the
\* cached list without a request
C6_Witness ==
    \E c \in Calls :
        /\ listSettled
        /\ calls[c].pc = "done"
        /\ calls[c].op = "getCurrencies"
        /\ ~obs[c].emptyAtCall
        /\ obs[c].net = <<>>
        /\ out[c].list = <<"USD", "BRL">>

\* C7: a rate call that finds no entry for its base, or one older than
\* 3,600,000 ms, issues the /latest request whatever the other entries are;
\* a successful answer becomes the entry of that base.
C7_FetchWhenAbsentOrStale ==
    \A c \in Calls :
        (calls[c].pc # "idle" /\ InFetchRates(c)) =>
            /\ (~obs[c].cached \/ obs[c].age > FreshnessWindow) => obs[c].net = <<"rates">>
            /\ (calls[c].pc = "done" /\ Succeeded(obs[c].resp)) =>
                 /\ calls[c].from \in DOMAIN rates
                 /\ rates[calls[c].from] = obs[c].resp.table
                 /\ fetchedAt[calls[c].from] = now

\* a stale entry was refetched and replaced while another base was fresh
C7_Witness ==
    \E c \in Calls :
        /\ calls[c].pc = "done"
        /\ InFetchRates(c)
        /\ obs[c].cached /\ obs[c].age > FreshnessWindow
        /\ Succeeded(obs[c].resp)
        /\ rates[calls[c].from] = obs[c].resp.table
        /\ \E b \in DOMAIN rates :
             b # calls[c].from /\ now - fetchedAt[b] < FreshnessWindow

\* C8: a convert between two listed codes that obtains a table without an
\* entry for `to` throws 'Exchange rate not found'.
C8_RateNotFoundThrows ==
    \A c \in Calls :
        ( /\ calls[c].pc = "done"
          /\ calls[c].op = "convert"
          /\ obs[c].fromKnown /\ obs[c].toKnown
          /\ obs[c].got = "table"
          /\ calls[c].to \notin DOMAIN obs[c].table )
        => /\ out[c].kind = "throw"
           /\ out[c].str = "Exchange rate not found"

\* convert(USD, USD, 10) obtained {BRL: 5} and has thrown
C8_Witness ==
    \E c \in Calls :
        /\ calls[c].pc = "done"
        /\ calls[c].op = "convert"
        /\ calls[c].from = "USD" /\ calls[c].to = "USD"
        /\ obs[c].got = "table" /\ obs[c].table = ("BRL" :> 5)
        /\ out[c].kind = "throw"

\* C9: a convert issues at most two requests, /codes before /latest, and
\* after a failed response it is settled without another request.
C9_AtMostTwoRequestsNoRetry ==
    \A c \in Calls :
        calls[c].op = "convert" =>
            /\ obs[c].net \in {<<>>, <<"codes">>, <<"rates">>, <<"codes", "rates">>}
            /\ Failed(obs[c].resp) => calls[c].pc = "done"

\* a convert whose one request failed has settled, with another call in flight
C9_Witness ==
    \E c, d \in Calls :
        /\ calls[c].pc = "done"
        /\ calls[c].op = "convert"
        /\ obs[c].net = <<"rates">>
        /\ Failed(obs[c].resp)
        /\ calls[d].pc \in {"awaitCodes", "awaitRates"}

\* C10: whatever the order in which the answers of concurrent /codes requests
\* arrive, the cached list is the list of the latest successful answer, and
\* it is empty only while no answer has succeeded.
C10_ListIsLatestSuccess ==
    /\ Len(currencies) = Len(lastCodes)
    /\ \A i \in 1..Len(currencies) :
         currencies[i] = [code |-> lastCodes[i][1], name |-> lastCodes[i][2]]

\* of two /codes requests in flight together one succeeded, and the failed
\* answer of the other arrived afterwards: the list is still there
C10_Witness ==
    \E c \in Calls :
        /\ calls[c].pc = "afterCodes"
        /\ obs[c].net = <<"codes">>
        /\ Failed(obs[c].resp)
        /\ currencies # <<>>

\* C11: a getCurrencies / getCurrenciesWithNames call that finds nothing cached
\* and whose /codes request fails (network error, non-2xx status, result other
\* than "success") returns an empty list, does not throw, and leaves the
\* cached list empty.
C11_FailedListFetchGivesEmpty ==
    \A c \in Calls :
        ( /\ calls[c].pc = "done"
          /\ calls[c].op \in {"getCurrencies", "getCurrenciesWithNames"}
          /\ obs[c].emptyAtCall
          /\ Failed(obs[c].resp)
          /\ obs[c].resp.kind # "badjson" )
        => /\ out[c] = List(<<>>)
           /\ currencies = <<>>

\* getCurrenciesWithNames, answered with status non-2xx, has returned []
C11_Witness ==
    \E c \in Calls :
        /\ calls[c].pc = "done"
        /\ calls[c].op = "getCurrenciesWithNames"
        /\ obs[c].resp.kind = "non2xx"
        /\ out[c] = List(<<>>)
        /\ currencies = <<>>

\* C14: the steps of a rate call leave the currency list and the entries of
\* the other bases as they were; only a successful answer changes the entry
\* of the call's own base, a failed one changes no entry.
C14_RatesFrame ==
    [][\A c \in Calls :
         /\ (calls[c].pc = "idle" /\ calls'[c].op \in RateOps) =>
              (rates' = rates /\ currencies' = currencies)
         /\ (calls[c].pc = "awaitRates" /\ calls'[c].pc = "done") =>
              /\ currencies' = currencies
              /\ DOMAIN rates' \subseteq DOMAIN rates \cup {calls[c].from}
              /\ \A b \in DOMAIN rates :
                   b # calls[c].from => (b \in DOMAIN rates' /\ rates'[b] = rates[b])
              /\ ~Succeeded(obs'[c].resp) => rates' = rates]_vars

\* a base was stored while the other base's entry and the list were cached,
\* and the other entry is still the table stored for it
C14_Witness ==
    \E c \in Calls :
        /\ calls[c].pc = "done"
        /\ calls[c].op = "fetchRates"
        /\ calls[c].from = "BRL"
        /\ Succeeded(obs[c].resp)
        /\ obs[c].resp.table = ("BRL" :> 5)
        /\ "USD" \in DOMAIN rates
        /\ rates["USD"] = ("USD" :> 1 @@ "BRL" :> 6)
        /\ currencies # <<>>

\* C15: a convert with `from` or `to` outside the cached list settles at once
\* with 'Invalid currency', without a request, and leaves the currency list
\* and every rate entry as they were.
C15_InvalidConvertFrame ==
    [][\A c \in Calls :
         ( /\ calls[c].pc = "idle"
           /\ calls'[c].op = "convert"
           /\ \/ calls'[c].from \notin CodeSet(currencies)
              \/ calls'[c].to \notin CodeSet(currencies) )
         => /\ calls'[c].pc = "done"
            /\ out'[c].kind = "throw" /\ out'[c].str = "Invalid currency"
            /\ obs'[c].net = <<>>
            /\ currencies' = currencies
            /\ rates' = rates]_vars

\* with a list and a rate entry cached, convert("XXX", "USD", ...) has thrown
\* without a request
C15_Witness ==
    \E c \in Calls :
        /\ calls[c].pc = "done"
        /\ calls[c].op = "convert"
        /\ calls[c].from = "XXX" /\ calls[c].to = "USD"
        /\ out[c] = Throw("Invalid currency", "XXX")
        /\ obs[c].net = <<>>
        /\ currencies # <<>>
        /\ DOMAIN rates # {}

\* C12 as stated: format throws exactly when the currency code is empty.
C12_FailsOnlyOnEmptyCode ==
    formatted.kind # "none" =>
        (formatted.kind = "throw" <=> formatted.currency = "")

\* C12 amended: format throws exactly when the code is empty, the code is not
\* three letters, or the locale of the instance is not a well-formed tag;
\* otherwise it returns a string.
C12_FailsOnEmptyOrMalformed ==
    formatted.kind # "none" =>
        /\ formatted.kind \in {"throw", "string"}
        /\ formatted.kind = "throw" <=>
             \/ formatted.currency = ""
             \/ formatted.currency \in {"US", "U$D", "EURO"}
             \/ lang = "pt_BR"
        /\ formatted.currency = "" => formatted.text = <<"Currency code is required.">>

\* format(0, "USD") under pt-BR has returned a string
C12_Witness ==
    /\ lang = "pt-BR"
    /\ formatted = [value |-> 0, currency |-> "USD", kind |-> "string",
                    text |-> <<"pt-BR", "USD", 0>>]

\* C13: with a missing key the constructor throws 'API key is required.' and
\* no instance exists; calls and requests only happen on an instance whose
\* key is a non-empty string.
C13_NoInstanceWithoutKey ==
    /\ (instance.given.kind # "string" \/ instance.given.str = "") => instance.st # "live"
    /\ instance.st = "threw" =>
         /\ instance.error = "API key is required."
         /\ exchangeRateApiKey = NullKey
    /\ instance.st = "live" =>
         /\ exchangeRateApiKey.kind = "string"
         /\ exchangeRateApiKey.str # ""
    /\ \A c \in Calls :
         (calls[c].pc # "idle" \/ obs[c].net # <<>>) =>
             (instance.st = "live" /\ exchangeRateApiKey.str # "")

\* the constructor was given the empty string and has thrown
C13_Witness ==
    /\ instance = [st |-> "threw", error |-> "API key is required.",
                   given |-> StringKey("")]
    /\ \A c \in Calls : calls[c].pc = "idle"

\* a conversion the component started and has not yet resumed from
ConversionInFlight(c) == calls[c].op = "convert" /\ calls[c].pc # "idle"

\* App.fetchRates resumes from the convert call of slot c in this step
ConversionSettles(c) ==
    /\ calls[c].op = "convert"
    /\ calls[c].pc = "done"
    /\ calls'[c].pc = "idle"

\* C16: in the component, loading is true exactly while a conversion it
\* started has not settled, at most one conversion is in flight at a time,
\* and the step that resumes from the convert call leaves loading false in
\* every outcome; when convert returned null or threw, that step sets an
\* error message and leaves the displayed result as it was.
C16_LoadingBracketsConversion ==
    /\ [](/\ appState.loading <=> (\E c \in Calls : ConversionInFlight(c))
          /\ \A c, d \in Calls : ConversionInFlight(c) /\ ConversionInFlight(d) => c = d)
    /\ [][\A c \in Calls : ConversionSettles(c) =>
            /\ ~appState'.loading
            /\ out[c].kind \in {"null", "throw"} =>
                 /\ appState'.error # NoError
                 /\ conversorData'.result = conversorData.result]_vars

\* C16 witness: a conversion that returned null has settled: loading is
\* false again, the TypeError of null.toFixed is the error message and the
\* result of the earlier conversion is still displayed.
C16_Witness ==
    /\ ~appState.loading
    /\ appState.error = <<"TypeError">>
    /\ conversorData.result = 10
    /\ \A c \in Calls : ~ConversionInFlight(c)

====
